---- MODULE Spec2Model ----
(***************************************************************************)
(* Model of opencode-wrapper: layered configuration loading                *)
(* (opencode_wrapper/config.py), the process runner                        *)
(* (opencode_wrapper/wrapper.py) and the command shell                     *)
(* (opencode_wrapper/cli.py).                                              *)
(*                                                                         *)
(* Text is a sequence of tokens (characters, or whole words where the      *)
(* code never looks inside them).  A Python value that may be None, a      *)
(* string or an integer is a tagged record: [null |-> TRUE], [str |-> s],  *)
(* [int |-> n].  A raised exception is a result record with ok = FALSE,    *)
(* its type in err and the path or variable its message names in ref.      *)
(***************************************************************************)
EXTENDS Integers, Sequences, FiniteSets, TLC

VARIABLES
    fs,       \* the files and directories the program touches
    environ,  \* os.environ of the wrapper process: name -> text, partial
    child,    \* what the opencode executable is and does when started
    arg,      \* the OpencodeConfig handed to OpencodeRunner.run
    res       \* outcome of the last operation

vars == <<fs, environ, child, arg, res>>

-----------------------------------------------------------------------------
(* Python values *)

None == [null |-> TRUE]
PyStr(s) == [str |-> s]
PyInt(n) == [int |-> n]
YMap(m) == [map |-> m]
YSeq(q) == [seq |-> q]
PyPath(p) == [path |-> p]

IsNone(v) == "null" \in DOMAIN v
IsStr(v) == "str" \in DOMAIN v
IsInt(v) == "int" \in DOMAIN v
IsMap(v) == "map" \in DOMAIN v
IsSeq(v) == "seq" \in DOMAIN v

\* A file that is not there, and a file whose text is not YAML.
Absent == [absent |-> TRUE]
Invalid == [invalid |-> TRUE]

EmptyMap == << >>

\* bool(v) of a parsed YAML document, as `or` and `if` test it.
Truthy(v) ==
    IF IsNone(v) THEN FALSE
    ELSE IF IsStr(v) THEN v.str # << >>
    ELSE IF IsInt(v) THEN v.int # 0
    ELSE IF IsMap(v) THEN DOMAIN v.map # {}
    ELSE IF IsSeq(v) THEN v.seq # << >>
    ELSE TRUE

\* {**a, **b}: b's keys override a's.
DictMerge(a, b) ==
    [k \in DOMAIN a \cup DOMAIN b |-> IF k \in DOMAIN b THEN b[k] ELSE a[k]]

-----------------------------------------------------------------------------
(* int(text) and str(int) *)

Digits == {"0", "1", "2", "3", "4", "5", "6", "7", "8", "9"}

DigitVal(c) ==
    CASE c = "0" -> 0 [] c = "1" -> 1 [] c = "2" -> 2 [] c = "3" -> 3
      [] c = "4" -> 4 [] c = "5" -> 5 [] c = "6" -> 6 [] c = "7" -> 7
      [] c = "8" -> 8 [] c = "9" -> 9

DigitChar(d) ==
    CASE d = 0 -> "0" [] d = 1 -> "1" [] d = 2 -> "2" [] d = 3 -> "3"
      [] d = 4 -> "4" [] d = 5 -> "5" [] d = 6 -> "6" [] d = 7 -> "7"
      [] d = 8 -> "8" [] d = 9 -> "9"

RECURSIVE Strip(_)
\* text.strip(): int() ignores blanks around the number.
Strip(s) ==
    IF s = << >> THEN s
    ELSE IF Head(s) = " " THEN Strip(Tail(s))
    ELSE IF s[Len(s)] = " " THEN Strip(SubSeq(s, 1, Len(s) - 1))
    ELSE s

Unsigned(s) ==
    IF s # << >> /\ Head(s) \in {"+", "-"} THEN Tail(s) ELSE s

\* Whether int(s) returns (TRUE) or raises ValueError (FALSE).
IsIntText(s) ==
    LET d == Unsigned(Strip(s))
    IN  d # << >> /\ \A i \in 1..Len(d) : d[i] \in Digits

RECURSIVE DigitsValue(_)
DigitsValue(d) ==
    IF d = << >> THEN 0
    ELSE 10 * DigitsValue(SubSeq(d, 1, Len(d) - 1)) + DigitVal(d[Len(d)])

\* int(s), for text that IsIntText.
ParseInt(s) ==
    LET t == Strip(s)
    IN  IF Head(t) = "-" THEN 0 - DigitsValue(Tail(t))
        ELSE DigitsValue(Unsigned(t))

RECURSIVE NatText(_)
NatText(n) ==
    IF n < 10 THEN <<DigitChar(n)>>
    ELSE Append(NatText(n \div 10), DigitChar(n % 10))

\* str(n)
IntText(n) == IF n < 0 THEN <<"-">> \o NatText(0 - n) ELSE NatText(n)

-----------------------------------------------------------------------------
(* Paths *)

HomeDir == <<"/", "home", "/", "user">>

\* Path(text): the empty text is the current directory.
PathOf(s) == IF s = << >> THEN <<".">> ELSE s

\* Path.expanduser(): a leading "~" component becomes the home directory.
ExpandUser(p) ==
    IF p # << >> /\ Head(p) = "~" /\ (Len(p) = 1 \/ p[2] = "/")
    THEN HomeDir \o Tail(p)
    ELSE p

\* OpencodeConfig.expand_workspace_dir
expand_workspace_dir(value) == ExpandUser(PathOf(value))

-----------------------------------------------------------------------------
(* OpencodeConfig *)

MinMaxTokens == 1
MaxMaxTokens == 32000
DefaultMaxTokens == 4096
DefaultModel == <<"gpt-4">>
DefaultWorkspaceDir == <<"~", "/", "opencode-workspace">>

Keys == {"api_key", "model", "max_tokens", "workspace_dir"}

Ok(v) == [ok |-> TRUE, err |-> "none", ref |-> "", val |-> v]
Raise(e, r) == [ok |-> FALSE, err |-> e, ref |-> r, val |-> None]

\* api_key: str | None = None
ApiKeyField(m) ==
    IF "api_key" \notin DOMAIN m THEN Ok(None)
    ELSE IF IsNone(m["api_key"]) \/ IsStr(m["api_key"]) THEN Ok(m["api_key"])
    ELSE Raise("ValidationError", "api_key")

\* model: str = "gpt-4"
ModelField(m) ==
    IF "model" \notin DOMAIN m THEN Ok(DefaultModel)
    ELSE IF IsStr(m["model"]) THEN Ok(m["model"].str)
    ELSE Raise("ValidationError", "model")

\* A value outside the range pulled to its nearest end.
MaxTokensRange_Clamped(n) ==
    Ok(IF n < MinMaxTokens THEN MinMaxTokens
       ELSE IF n > MaxMaxTokens THEN MaxMaxTokens ELSE n)

\* ge=1, le=32000: a value outside the range is refused.
MaxTokensRange(n) ==
    IF MinMaxTokens <= n /\ n <= MaxMaxTokens THEN Ok(n)
    ELSE Raise("ValidationError", "max_tokens")

\* max_tokens: int = 4096, numeric text being coerced to int
MaxTokensField(m) ==
    IF "max_tokens" \notin DOMAIN m THEN Ok(DefaultMaxTokens)
    ELSE IF IsInt(m["max_tokens"]) THEN MaxTokensRange(m["max_tokens"].int)
    ELSE IF IsStr(m["max_tokens"]) /\ IsIntText(m["max_tokens"].str)
         THEN MaxTokensRange(ParseInt(m["max_tokens"].str))
    ELSE Raise("ValidationError", "max_tokens")

\* workspace_dir: Path, the "before" validator running on given values only:
\* a default is taken as declared, without validation.
WorkspaceDirField(m) ==
    IF "workspace_dir" \notin DOMAIN m THEN Ok(DefaultWorkspaceDir)
    ELSE IF IsStr(m["workspace_dir"])
         THEN Ok(expand_workspace_dir(m["workspace_dir"].str))
    ELSE Raise("TypeError", "workspace_dir")

\* OpencodeConfig.model_validate(m); keys outside Keys are ignored.
model_validate(m) ==
    LET a == ApiKeyField(m)
        o == ModelField(m)
        t == MaxTokensField(m)
        w == WorkspaceDirField(m)
    IN  IF ~a.ok THEN a
        ELSE IF ~o.ok THEN o
        ELSE IF ~t.ok THEN t
        ELSE IF ~w.ok THEN w
        ELSE Ok([api_key |-> a.val, model |-> o.val,
                 max_tokens |-> t.val, workspace_dir |-> w.val])

\* OpencodeConfig(): every field at its default.
DefaultConfig == model_validate(EmptyMap).val

\* model_dump(mode="json"): fields in declaration order, the path as text.
model_dump(c) ==
    [api_key |-> c.api_key, model |-> PyStr(c.model),
     max_tokens |-> PyInt(c.max_tokens), workspace_dir |-> PyStr(c.workspace_dir)]

-----------------------------------------------------------------------------
(* ConfigManager *)

UserConfigDir == "<config>/opencode-wrapper"
UserConfigFile == "<config>/opencode-wrapper/config.yaml"
ProjectConfigFile == "<cwd>/.opencode.yaml"

resolve_paths ==
    [user_config_dir |-> UserConfigDir, user_config_file |-> UserConfigFile,
     project_config_file |-> ProjectConfigFile]

ENV_API_KEY == "OPENENCODE_API_KEY"
ENV_MODEL == "OPENENCODE_MODEL"
ENV_MAX_TOKENS == "OPENENCODE_MAX_TOKENS"
ENV_WORKSPACE_DIR == "OPENENCODE_WORKSPACE_DIR"

EnvNames == {ENV_API_KEY, ENV_MODEL, ENV_MAX_TOKENS, ENV_WORKSPACE_DIR}

\* os.getenv(name)
getenv(env, name) == IF name \in DOMAIN env THEN PyStr(env[name]) ELSE None

\* The document at `path` in the file system f.
FileAt(f, path) == IF path = UserConfigFile THEN f.user ELSE f.project

Exists(f, path) == FileAt(f, path) # Absent

\* ConfigManager._read_yaml
read_yaml(f, path) ==
    LET doc == FileAt(f, path)
        data == IF Truthy(doc) THEN doc ELSE YMap(EmptyMap)
    IN  IF ~Exists(f, path) THEN Ok(EmptyMap)
        ELSE IF doc = Invalid THEN Raise("ConfigError", path)
        ELSE IF ~IsMap(data) THEN Raise("ConfigError", path)
        ELSE Ok(data.map)

\* ConfigManager._read_env
read_env(env) ==
    LET api_key == getenv(env, ENV_API_KEY)
        model == getenv(env, ENV_MODEL)
        max_tokens == getenv(env, ENV_MAX_TOKENS)
        workspace_dir == getenv(env, ENV_WORKSPACE_DIR)
        m1 == IF Truthy(api_key) THEN [api_key |-> api_key] ELSE EmptyMap
        m2 == IF Truthy(model) THEN DictMerge(m1, [model |-> model]) ELSE m1
        m3 == IF Truthy(max_tokens) /\ IsIntText(max_tokens.str)
              THEN DictMerge(m2, [max_tokens |-> PyInt(ParseInt(max_tokens.str))])
              ELSE m2
        m4 == IF Truthy(workspace_dir)
              THEN DictMerge(m3, [workspace_dir |-> workspace_dir])
              ELSE m3
    IN  IF Truthy(max_tokens) /\ ~IsIntText(max_tokens.str)
        THEN Raise("ConfigError", ENV_MAX_TOKENS)
        ELSE Ok(m4)

ConfigSource(f, path, data) ==
    [path |-> path, exists |-> Exists(f, path),
     loaded |-> (DOMAIN data # {}), data |-> data]

\* merged = {**user_data, **project_data, **env_data}
Merged(user_data, project_data, env_data) ==
    DictMerge(DictMerge(user_data, project_data), env_data)

\* ConfigManager.load: val is the ConfigLoadResult.
load(f, env) ==
    LET paths == resolve_paths
        u == read_yaml(f, paths.user_config_file)
        p == read_yaml(f, paths.project_config_file)
        e == read_env(env)
        v == model_validate(Merged(u.val, p.val, e.val))
    IN  IF ~u.ok THEN u
        ELSE IF ~p.ok THEN p
        ELSE IF ~e.ok THEN e
        ELSE IF ~v.ok THEN v
        ELSE Ok([config |-> v.val,
                 sources |-> <<ConfigSource(f, paths.user_config_file, u.val),
                               ConfigSource(f, paths.project_config_file, p.val)>>])

\* ConfigManager._write_yaml: the text of yaml.safe_dump(data) parses back to
\* data.  A full disk leaves the file opened for writing, hence empty.
write_yaml(f, path, data) ==
    IF f.perm = "ro" THEN [Raise("ConfigError", path) EXCEPT !.val = f]
    ELSE IF f.disk = "full"
         THEN [Raise("ConfigError", path) EXCEPT !.val = [f EXCEPT !.user = None]]
    ELSE Ok([f EXCEPT !.user = YMap(data)])

\* Path.mkdir(parents=True, exist_ok=True)
mkdir(f, path) ==
    IF f.dir = "present" THEN Ok(f)
    ELSE IF f.perm = "ro" \/ f.disk = "full" THEN [Raise("OSError", path) EXCEPT !.val = f]
    ELSE Ok([f EXCEPT !.dir = "present"])

\* write_default that keeps an existing file even when forced.
write_default_KeepExisting(f, force) ==
    LET paths == resolve_paths
        d == mkdir(f, paths.user_config_dir)
        w == write_yaml(d.val, paths.user_config_file, model_dump(DefaultConfig))
    IN  IF Exists(f, paths.user_config_file)
        THEN [fs |-> f] @@ Ok(PyPath(paths.user_config_file))
        ELSE IF ~d.ok THEN [fs |-> d.val] @@ [d EXCEPT !.val = None]
        ELSE IF ~w.ok THEN [fs |-> w.val] @@ [w EXCEPT !.val = None]
        ELSE [fs |-> w.val] @@ Ok(PyPath(paths.user_config_file))

\* ConfigManager.write_default: val is the path returned, fs the files after.
write_default(f, force) ==
    LET paths == resolve_paths
        d == mkdir(f, paths.user_config_dir)
        w == write_yaml(d.val, paths.user_config_file, model_dump(DefaultConfig))
    IN  IF Exists(f, paths.user_config_file) /\ ~force
        THEN [fs |-> f] @@ Ok(PyPath(paths.user_config_file))
        ELSE IF ~d.ok THEN [fs |-> d.val] @@ [d EXCEPT !.val = None]
        ELSE IF ~w.ok THEN [fs |-> w.val] @@ [w EXCEPT !.val = None]
        ELSE [fs |-> w.val] @@ Ok(PyPath(paths.user_config_file))

-----------------------------------------------------------------------------
(* OpencodeRunner *)

Executable == "opencode"

NotFoundMessage == "opencode executable not found in PATH"

\* A byte no text decoding accepts.
BadByte == "\\xff"

CanDecode(bytes) == \A i \in 1..Len(bytes) : bytes[i] # BadByte

RECURSIVE TranslateNewlines(_)
\* Text mode reads "\r\n" and "\r" as "\n".
TranslateNewlines(t) ==
    IF t = << >> THEN t
    ELSE IF Head(t) = "\r" /\ Len(t) > 1 /\ t[2] = "\n"
         THEN <<"\n">> \o TranslateNewlines(Tail(Tail(t)))
    ELSE IF Head(t) = "\r" THEN <<"\n">> \o TranslateNewlines(Tail(t))
    ELSE <<Head(t)>> \o TranslateNewlines(Tail(t))

\* _build_env that lets an inherited variable win over the Configuration.
build_env_KeepInherited(config, env) ==
    LET e1 == IF Truthy(config.api_key)
              THEN DictMerge(ENV_API_KEY :> config.api_key.str, env)
              ELSE env
        e2 == DictMerge(ENV_MODEL :> config.model, e1)
        e3 == DictMerge(ENV_MAX_TOKENS :> IntText(config.max_tokens), e2)
        e4 == DictMerge(ENV_WORKSPACE_DIR :> config.workspace_dir, e3)
    IN  [env |-> e4, environ |-> env]

\* OpencodeRunner._build_env: env is the mapping returned, environ is
\* os.environ afterwards.
build_env(config, env) ==
    LET e1 == IF Truthy(config.api_key)
              THEN DictMerge(env, ENV_API_KEY :> config.api_key.str)
              ELSE env
        e2 == DictMerge(e1, ENV_MODEL :> config.model)
        e3 == DictMerge(e2, ENV_MAX_TOKENS :> IntText(config.max_tokens))
        e4 == DictMerge(e3, ENV_WORKSPACE_DIR :> config.workspace_dir)
    IN  [env |-> e4, environ |-> env]

\* subprocess.run(command, env=env, check=False, ...) for the child c:
\* val is the CompletedProcess.
subprocess_run(c, capture) ==
    IF c.exe = "missing" THEN Raise("FileNotFoundError", Executable)
    ELSE IF c.exe = "noexec" THEN Raise("PermissionError", Executable)
    ELSE IF ~capture
         THEN Ok([returncode |-> c.code, stdout |-> None, stderr |-> None])
    ELSE IF ~CanDecode(c.out) \/ ~CanDecode(c.err)
         THEN Raise("UnicodeDecodeError", Executable)
    ELSE Ok([returncode |-> c.code,
             stdout |-> PyStr(TranslateNewlines(c.out)),
             stderr |-> PyStr(TranslateNewlines(c.err))])

\* RunResult(returncode=..., stdout=..., stderr=...)
RunResult(completed) ==
    [returncode |-> completed.returncode,
     stdout |-> completed.stdout, stderr |-> completed.stderr]

\* OpencodeRunner.run: val is the RunResult, env what the child was given.
run(config, interactive, env, c) ==
    LET b == build_env(config, env)
        completed == subprocess_run(c, ~interactive)
        out == IF completed.err = "FileNotFoundError"
               THEN Raise("RuntimeError", NotFoundMessage)
               ELSE IF ~completed.ok THEN completed
               ELSE IF interactive
                    THEN Ok([returncode |-> completed.val.returncode,
                             stdout |-> None, stderr |-> None])
               ELSE Ok(RunResult(completed.val))
    IN  [env |-> b.env, environ |-> b.environ] @@ out

-----------------------------------------------------------------------------
(* The command shell (cli.py).  A shell result holds the exit status, the   *)
(* exception that escaped the command's handlers ("none" when all were      *)
(* caught) and what was echoed.                                             *)

\* ConfigError is a RuntimeError; `except RuntimeError` catches both.
IsRuntimeError(e) == e \in {"RuntimeError", "ConfigError"}

Exit(code, out, err) ==
    [exit |-> code, uncaught |-> "none", echo_out |-> out, echo_err |-> err]

\* An exception no handler catches ends the interpreter with status 1.
Crash(e) == [exit |-> 1, uncaught |-> e, echo_out |-> << >>, echo_err |-> << >>]

Echo(v) == IF Truthy(v) THEN v.str ELSE << >>

\* cli.run
cli_run(f, env, c, non_interactive) ==
    LET l == load(f, env)
        r == run(l.val.config, ~non_interactive, env, c)
        sh == IF ~l.ok
              THEN (IF l.err = "ConfigError" THEN Exit(1, << >>, << >>)
                    ELSE Crash(l.err))
              ELSE IF ~r.ok
              THEN (IF IsRuntimeError(r.err) THEN Exit(1, << >>, << >>)
                    ELSE Crash(r.err))
              ELSE Exit(IF r.val.returncode # 0 THEN r.val.returncode ELSE 0,
                        Echo(r.val.stdout), Echo(r.val.stderr))
    IN  [environ |-> IF l.ok THEN r.environ ELSE env] @@ sh

\* cli.config_show
cli_config_show(f, env) ==
    LET l == load(f, env)
    IN  IF ~l.ok
        THEN (IF l.err = "ConfigError" THEN Exit(1, << >>, << >>) ELSE Crash(l.err))
        ELSE Exit(0, <<"config", "sources">>, << >>)

\* cli.config_init
cli_config_init(f, force) ==
    LET w == write_default(f, force)
    IN  IF ~w.ok
        THEN (IF w.err = "ConfigError" THEN Exit(1, << >>, << >>) ELSE Crash(w.err))
        ELSE Exit(0, <<"Wrote configuration to", w.val.path>>, << >>)

\* cli.config_path
cli_config_path ==
    Exit(0, <<resolve_paths.user_config_file, resolve_paths.project_config_file>>, << >>)

-----------------------------------------------------------------------------
(* Bounds and the inputs drawn within them *)

MaxExit == 2
MaxOut == 1

\* A slot is << >> (key not given) or <<v>>; the mapping keeps the given keys.
MkMap(names, slots) ==
    [k \in {n \in names : slots[n] # << >>} |-> slots[k][1]]

Slots(a, m, t, w) ==
    [api_key |-> a, model |-> m, max_tokens |-> t, workspace_dir |-> w]

UserMaps ==
    {MkMap(Keys, Slots(a, m, t, w)) :
        a \in {<< >>, <<PyStr(<<"ku">>)>>},
        m \in {<< >>, <<PyStr(<<"mu">>)>>},
        t \in {<< >>, <<PyInt(1)>>, <<PyInt(32001)>>},
        w \in {<< >>, <<PyStr(<<"~", "/", "u">>)>>}}

ProjectMaps ==
    {MkMap(Keys, Slots(a, m, t, w)) :
        a \in {<< >>, <<PyStr(<<"kp">>)>>},
        m \in {<< >>, <<PyStr(<<"mp">>)>>},
        t \in {<< >>, <<PyInt(0)>>, <<PyInt(32000)>>},
        w \in {<< >>, <<PyStr(<<"/", "p">>)>>}}

NonMappings == {YSeq(<< >>), YSeq(<<PyStr(<<"x">>)>>), PyStr(<<"text">>)}

UserDocs ==
    {Absent, Invalid, None, YMap(model_dump(DefaultConfig))}
        \cup NonMappings \cup {YMap(m) : m \in UserMaps}

ProjectDocs ==
    {Absent} \cup NonMappings \cup {YMap(m) : m \in ProjectMaps}

EnvSlots(a, m, t, w) ==
    (ENV_API_KEY :> a) @@ (ENV_MODEL :> m) @@ (ENV_MAX_TOKENS :> t)
        @@ (ENV_WORKSPACE_DIR :> w)

LoadEnvs ==
    {MkMap(EnvNames, EnvSlots(a, m, t, w)) :
        a \in {<< >>, <<<<"ke">>>>},
        m \in {<< >>, <<<< >>>>, <<<<"me">>>>},
        t \in {<< >>, <<<< >>>>, <<<<"x">>>>, <<<<"0">>>>, <<<<"1">>>>,
               <<<<"3", "2", "0", "0", "0">>>>, <<<<"3", "2", "0", "0", "1">>>>},
        w \in {<< >>, <<<<"~", "/", "e">>>>}}

OtherVar == "PATH"

InheritedEnv ==
    (ENV_API_KEY :> <<"kold">>) @@ (ENV_MODEL :> <<"mold">>)
        @@ (ENV_MAX_TOKENS :> <<"7">>) @@ (ENV_WORKSPACE_DIR :> <<"/", "old">>)
        @@ (OtherVar :> <<"/", "bin">>)

RunEnvs ==
    {[n \in a \cup b |-> InheritedEnv[n]] :
        a \in {{}, {ENV_API_KEY}},
        b \in {{}, {ENV_MODEL, ENV_MAX_TOKENS, ENV_WORKSPACE_DIR, OtherVar}}}

RunConfigs ==
    {[api_key |-> a, model |-> <<"ma">>, max_tokens |-> t,
      workspace_dir |-> HomeDir \o <<"/", "w">>] :
        a \in {None, PyStr(<< >>), PyStr(<<"ka">>)}, t \in {1, 32000}}

RunUserDocs ==
    {Absent, Invalid,
     YMap([api_key |-> PyStr(<<"ku">>), max_tokens |-> PyInt(32000)])}

Bytes == {"a", "\r", "\n", BadByte}

SeqsUpTo(S, n) == UNION {[1..k -> S] : k \in 0..n}

Outs == SeqsUpTo(Bytes, MaxOut)

ErrBytes == {"e", BadByte}

ErrOuts == SeqsUpTo(ErrBytes, MaxOut)

Children ==
    {[exe |-> x, code |-> 0, out |-> << >>, err |-> << >>] : x \in {"missing", "noexec"}}
        \cup {[exe |-> "ok", code |-> k, out |-> o, err |-> e] :
                k \in 0..MaxExit, o \in Outs, e \in ErrOuts}

WriteDocs ==
    {None, Invalid, YMap([model |-> PyStr(<<"mu">>)]), YMap(model_dump(DefaultConfig))}

NoFiles ==
    [user |-> Absent, project |-> Absent, dir |-> "present", perm |-> "rw", disk |-> "ok"]

NoChild == [exe |-> "missing", code |-> 0, out |-> << >>, err |-> << >>]

NoRes ==
    [op |-> "none", ok |-> TRUE, err |-> "none", ref |-> "", val |-> None,
     force |-> FALSE, existed |-> FALSE, interactive |-> FALSE,
     config |-> None, env |-> EmptyMap,
     exit |-> 0, uncaught |-> "none", echo_out |-> << >>, echo_err |-> << >>]

Outcome(r) == [ok |-> r.ok, err |-> r.err, ref |-> r.ref, val |-> r.val]

Shell(r) ==
    [exit |-> r.exit, uncaught |-> r.uncaught,
     echo_out |-> r.echo_out, echo_err |-> r.echo_err]

-----------------------------------------------------------------------------
(* Operations *)

Load ==
    /\ res' = [op |-> "load"] @@ Outcome(load(fs, environ)) @@ NoRes
    /\ UNCHANGED <<fs, environ, child, arg>>

ConfigShow ==
    /\ res' = [op |-> "config_show"] @@ Shell(cli_config_show(fs, environ)) @@ NoRes
    /\ UNCHANGED <<fs, environ, child, arg>>

ConfigPath ==
    /\ res' = [op |-> "config_path"] @@ Shell(cli_config_path) @@ NoRes
    /\ UNCHANGED <<fs, environ, child, arg>>

WriteDefault(force) ==
    LET w == write_default(fs, force)
    IN  /\ fs' = w.fs
        /\ res' = [op |-> "write_default", force |-> force,
                   existed |-> Exists(fs, UserConfigFile)] @@ Outcome(w) @@ NoRes
        /\ UNCHANGED <<environ, child, arg>>

ConfigInit(force) ==
    /\ fs' = write_default(fs, force).fs
    /\ res' = [op |-> "config_init", force |-> force,
               existed |-> Exists(fs, UserConfigFile)]
                @@ Shell(cli_config_init(fs, force)) @@ NoRes
    /\ UNCHANGED <<environ, child, arg>>

RunnerRun(interactive) ==
    LET r == run(arg, interactive, environ, child)
    IN  /\ environ' = r.environ
        /\ res' = [op |-> "run", interactive |-> interactive, config |-> arg,
                   env |-> r.env] @@ Outcome(r) @@ NoRes
        /\ UNCHANGED <<fs, child, arg>>

CliRun(non_interactive) ==
    LET r == cli_run(fs, environ, child, non_interactive)
    IN  /\ environ' = r.environ
        /\ res' = [op |-> "cli_run", interactive |-> ~non_interactive]
                    @@ Shell(r) @@ NoRes
        /\ UNCHANGED <<fs, child, arg>>

(* What happens to the user's configuration outside the program. *)

EditUserFile(doc) ==
    /\ fs' = [fs EXCEPT !.user = doc, !.dir = "present"]
    /\ UNCHANGED <<environ, child, arg, res>>

RemoveConfigDir ==
    /\ fs' = [fs EXCEPT !.user = Absent, !.dir = "missing"]
    /\ UNCHANGED <<environ, child, arg, res>>

RemoveUserFile ==
    /\ fs' = [fs EXCEPT !.user = Absent]
    /\ UNCHANGED <<environ, child, arg, res>>

Chmod(p) ==
    /\ fs' = [fs EXCEPT !.perm = p]
    /\ UNCHANGED <<environ, child, arg, res>>

DiskSpace(d) ==
    /\ fs' = [fs EXCEPT !.disk = d]
    /\ UNCHANGED <<environ, child, arg, res>>

-----------------------------------------------------------------------------
(* Specifications: one per entry point, each started from every input     *)
(* within the bounds.                                                       *)

InitLoad ==
    /\ fs \in {[NoFiles EXCEPT !.user = u, !.project = p] :
                 u \in UserDocs, p \in ProjectDocs}
    /\ environ \in LoadEnvs
    /\ child = NoChild
    /\ arg = DefaultConfig
    /\ res = NoRes

NextLoad == Load \/ ConfigShow \/ ConfigPath

SpecLoad == InitLoad /\ [][NextLoad]_vars

InitWrite ==
    /\ fs = [NoFiles EXCEPT !.dir = "missing"]
    /\ environ = EmptyMap
    /\ child = NoChild
    /\ arg = DefaultConfig
    /\ res = NoRes

NextWrite ==
    \/ \E force \in BOOLEAN : WriteDefault(force)
    \/ \E force \in BOOLEAN : ConfigInit(force)
    \/ \E doc \in WriteDocs : EditUserFile(doc)
    \/ RemoveUserFile
    \/ RemoveConfigDir
    \/ \E p \in {"rw", "ro"} : Chmod(p)
    \/ \E d \in {"ok", "full"} : DiskSpace(d)

SpecWrite == InitWrite /\ [][NextWrite]_vars

InitRun ==
    /\ fs \in {[NoFiles EXCEPT !.user = u] : u \in RunUserDocs}
    /\ environ \in RunEnvs
    /\ child \in Children
    /\ arg \in RunConfigs
    /\ res = NoRes

NextRun ==
    \/ \E interactive \in BOOLEAN : RunnerRun(interactive)
    \/ \E non_interactive \in BOOLEAN : CliRun(non_interactive)

SpecRun == InitRun /\ [][NextRun]_vars

-----------------------------------------------------------------------------
(* Properties of ConfigManager.load *)

FileMap(doc) == IF IsMap(doc) THEN doc.map ELSE EmptyMap

EnvVar(k) ==
    CASE k = "api_key" -> ENV_API_KEY [] k = "model" -> ENV_MODEL
      [] k = "max_tokens" -> ENV_MAX_TOKENS [] k = "workspace_dir" -> ENV_WORKSPACE_DIR

\* The source the precedence rule takes key k from: "env" when the variable
\* is set, else "project", else "user" when that file gives the key.
RankedSource(k) ==
    IF EnvVar(k) \in DOMAIN environ THEN "env"
    ELSE IF k \in DOMAIN FileMap(fs.project) THEN "project"
    ELSE IF k \in DOMAIN FileMap(fs.user) THEN "user"
    ELSE "default"

\* The value key k has in `source`, as the Configuration field holds it.
FileValue(source, k) ==
    LET v == IF source = "project" THEN FileMap(fs.project)[k] ELSE FileMap(fs.user)[k]
    IN  CASE k = "api_key" -> v
          [] k = "model" -> v.str
          [] k = "max_tokens" -> v.int
          [] k = "workspace_dir" -> expand_workspace_dir(v.str)

TakenFromRanked(c, k) ==
    LET source == RankedSource(k)
        text == environ[EnvVar(k)]
    IN  CASE source = "default" -> TRUE
          [] source \in {"user", "project"} -> c[k] = FileValue(source, k)
          [] source = "env" /\ k = "api_key" -> c[k] = PyStr(text)
          [] source = "env" /\ k = "model" -> c[k] = text
          [] source = "env" /\ k = "max_tokens" ->
                IsIntText(text) /\ c[k] = ParseInt(text)
          [] source = "env" /\ k = "workspace_dir" ->
                c[k] = expand_workspace_dir(text)

\* C1: in the Configuration load returns, every setting comes from the
\* highest-ranked source that sets it, environment > project file > user
\* file, where an environment variable set to any value counts as set.
C1_Precedence ==
    (res.op = "load" /\ res.ok) =>
        \A k \in Keys : TakenFromRanked(res.val.config, k)

EmptySource(doc) == doc \in {Absent, None, YMap(EmptyMap)}

AllSourcesEmpty ==
    /\ EmptySource(fs.user)
    /\ EmptySource(fs.project)
    /\ \A n \in EnvNames : n \notin DOMAIN environ \/ environ[n] = << >>

\* C2: with both files and all four variables empty or absent, load succeeds
\* with model "gpt-4", max_tokens 4096, no api_key and the default workspace
\* path expanded to an absolute path under the home directory.
C2_Defaults ==
    (res.op = "load" /\ AllSourcesEmpty) =>
        /\ res.ok
        /\ res.val.config =
              [api_key |-> None, model |-> <<"gpt-4">>, max_tokens |-> 4096,
               workspace_dir |-> HomeDir \o <<"/", "opencode-workspace">>]

\* Both files were read: each is absent or parses to what load takes as a
\* mapping.  Only then does load come to read the environment.
FilesRead ==
    read_yaml(fs, UserConfigFile).ok /\ read_yaml(fs, ProjectConfigFile).ok

\* The merged mapping load validates, when all three sources could be read.
SourcesRead == FilesRead /\ read_env(environ).ok

MergedNow ==
    Merged(read_yaml(fs, UserConfigFile).val, read_yaml(fs, ProjectConfigFile).val,
           read_env(environ).val)

\* C3: a returned Configuration has max_tokens within [1, 32000]; a merged
\* max_tokens inside the range is accepted unchanged, one outside it makes
\* load fail with no Configuration, and none is clamped into the range.
C3_MaxTokensRange ==
    res.op = "load" =>
        /\ res.ok => res.val.config.max_tokens \in 1..32000
        /\ (SourcesRead /\ "max_tokens" \in DOMAIN MergedNow) =>
              LET n == MergedNow["max_tokens"].int
              IN  /\ n \in 1..32000 => res.ok /\ res.val.config.max_tokens = n
                  /\ n \notin 1..32000 => ~res.ok /\ res.val = None

\* A merged max_tokens at the upper end, set by the environment over a file
\* value outside the range, was accepted as it is.
C3_Witness ==
    /\ res.op = "load"
    /\ res.ok
    /\ ENV_MAX_TOKENS \in DOMAIN environ
    /\ environ[ENV_MAX_TOKENS] = <<"3", "2", "0", "0", "0">>
    /\ "max_tokens" \in DOMAIN FileMap(fs.user)
    /\ FileMap(fs.user)["max_tokens"] = PyInt(32001)
    /\ res.val.config.max_tokens = 32000

\* C4: every failure of load and write_default is a ConfigError, so none
\* passes the shell's `except ConfigError` handlers.
C4_OnlyConfigError ==
    /\ (res.op \in {"load", "write_default"} /\ ~res.ok) => res.err = "ConfigError"
    /\ res.op \in {"config_show", "config_init"} => res.uncaught = "none"

NonMapping(doc) == IsSeq(doc) \/ IsStr(doc) \/ IsInt(doc)

\* C5: a config file whose parsed top level is a sequence (empty or not) or a
\* scalar makes load fail with a ConfigError naming that file, the user file
\* being checked before the project file.
C5_NonMappingRejected ==
    res.op = "load" =>
        /\ NonMapping(fs.user) =>
              ~res.ok /\ res.err = "ConfigError" /\ res.ref = UserConfigFile
                /\ res.val = None
        /\ (read_yaml(fs, UserConfigFile).ok /\ NonMapping(fs.project)) =>
              ~res.ok /\ res.err = "ConfigError" /\ res.ref = ProjectConfigFile
                /\ res.val = None

\* C6: OPENENCODE_MAX_TOKENS set to text that is no integer, the empty text
\* included, makes load fail with a ConfigError naming the variable, whatever
\* settings the files that were read hold.
C6_BadMaxTokensEnv ==
    (res.op = "load" /\ FilesRead /\ ENV_MAX_TOKENS \in DOMAIN environ
        /\ ~IsIntText(environ[ENV_MAX_TOKENS])) =>
        ~res.ok /\ res.err = "ConfigError" /\ res.ref = ENV_MAX_TOKENS

-----------------------------------------------------------------------------
(* Properties of ConfigManager.write_default *)

\* C7: write_default with force false and the user file present changes
\* nothing and returns the file's path without error; a call that writes
\* (forced, or the file absent) and succeeds leaves the file holding the
\* serialized default Configuration whatever it held before; every successful
\* call returns the user file's path and leaves the file there.
C7_WriteDefault ==
    [][\A force \in BOOLEAN :
          WriteDefault(force) =>
            /\ (~force /\ Exists(fs, UserConfigFile)) =>
                  fs' = fs /\ res'.ok /\ res'.val = PyPath(UserConfigFile)
            /\ ((force \/ ~Exists(fs, UserConfigFile)) /\ res'.ok) =>
                  fs'.user = YMap(model_dump(DefaultConfig))
            /\ res'.ok =>
                  res'.val = PyPath(UserConfigFile) /\ Exists(fs', UserConfigFile)]_vars

\* A forced call found the file present and replaced other content with the
\* defaults.
C7_Witness ==
    /\ res.op = "write_default"
    /\ res.force
    /\ res.existed
    /\ res.ok
    /\ res.val = PyPath(UserConfigFile)
    /\ fs.user = YMap(model_dump(DefaultConfig))

-----------------------------------------------------------------------------
(* Properties of OpencodeRunner.run *)

\* The variables the Configuration c overrides in the child's environment.
Overlaid(c) ==
    {ENV_MODEL, ENV_MAX_TOKENS, ENV_WORKSPACE_DIR}
        \cup (IF IsStr(c.api_key) /\ c.api_key.str # << >> THEN {ENV_API_KEY} ELSE {})

ChildEnvFor(c, parent, e) ==
    /\ DOMAIN e = DOMAIN parent \cup Overlaid(c)
    /\ e[ENV_MODEL] = c.model
    /\ IsIntText(e[ENV_MAX_TOKENS]) /\ ParseInt(e[ENV_MAX_TOKENS]) = c.max_tokens
    /\ e[ENV_WORKSPACE_DIR] = c.workspace_dir
    /\ ENV_API_KEY \in Overlaid(c) => e[ENV_API_KEY] = c.api_key.str
    /\ \A n \in DOMAIN parent \ Overlaid(c) : e[n] = parent[n]

\* C8: the environment run gives the child is the parent's, except that
\* MODEL, MAX_TOKENS and WORKSPACE_DIR hold the Configuration's values and
\* API_KEY holds config.api_key exactly when that is non-empty; every other
\* inherited variable passes through, and os.environ stays as it was.
C8_ChildEnv ==
    [][\A interactive \in BOOLEAN :
          RunnerRun(interactive) =>
            /\ environ' = environ
            /\ ChildEnvFor(arg, environ, res'.env)]_vars

\* A run without an api_key in the Configuration, under a parent environment
\* holding an API key, other settings and an unrelated variable.
C8_Witness ==
    /\ res.op = "run"
    /\ ~Truthy(res.config.api_key)
    /\ DOMAIN environ = DOMAIN InheritedEnv
    /\ res.env[ENV_API_KEY] = environ[ENV_API_KEY]
    /\ res.env[OtherVar] = environ[OtherVar]
    /\ res.env[ENV_MAX_TOKENS] # environ[ENV_MAX_TOKENS]

\* C9: run fails with the "executable not found" error exactly when the
\* executable cannot be located or started, in either mode.
C9_ExecutableNotFound ==
    res.op = "run" =>
        ((~res.ok /\ res.err = "RuntimeError" /\ res.ref = NotFoundMessage)
            <=> child.exe # "ok")

\* C10: once the child has started, run returns a RunResult with the child's
\* exit code and raises nothing; interactive, both texts are absent; captured,
\* stdout and stderr hold exactly what the child wrote; and the shell's run
\* command exits with the child's exit code.
C10_RunResult ==
    /\ (res.op = "run" /\ child.exe = "ok") =>
          /\ res.ok
          /\ res.val.returncode = child.code
          /\ res.interactive => res.val.stdout = None /\ res.val.stderr = None
          /\ ~res.interactive =>
                res.val.stdout = PyStr(child.out) /\ res.val.stderr = PyStr(child.err)
    /\ (res.op = "cli_run" /\ child.exe = "ok" /\ load(fs, environ).ok) =>
          res.uncaught = "none" /\ res.exit = child.code

====
